---------------------------- MODULE Spec2Model ----------------------------
(***************************************************************************)
(* Model of astrotable/matcher.py: the two built-in matchers, ExactMatcher *)
(* and SkyMatcher, as one matcher instance driven by its caller through    *)
(* get_values (the "prepare" step), match and explore.                     *)
(*                                                                         *)
(* Arrays are sequences; positions are 1-based in the model while the      *)
(* VALUES stored in idx and in the compact index maps are the code's       *)
(* 0-based row indices.  An astropy table is a record of its masked flag,  *)
(* its length and its columns; a column is a record of its values and,     *)
(* for a masked table, its mask.  Angular positions are integers in        *)
(* arcseconds and the separation of two points is the sum of the absolute  *)
(* differences of their components.                                        *)
(***************************************************************************)
EXTENDS Integers, Sequences, FiniteSets, TLC

\* Longest table, raw array and coordinate object explored.
MaxLen == 2
\* thres=1, the default of SkyMatcher.__init__.
DefaultThres == 1

\* Keys of the exact-match column.
Keys == {1, 2}
\* RA values, in arcseconds; Dec is 0 throughout.
Pos == {0, 1}
MaxPos == CHOOSE p \in Pos : \A q \in Pos : q <= p
MaxKey == CHOOSE p \in Keys : \A q \in Keys : q <= p

VARIABLES
    self,     \* the matcher instance: its attributes
    args,     \* the arguments the instance was constructed with
    data,     \* base table of the last get_values call that returned
    data1,    \* other table of the last get_values call that returned
    nprep,    \* get_values calls that returned: 0, 1, or 2 for "several"
    clean,    \* no get_values call has raised so far
    last,     \* the last method called on the instance
    nmatch,   \* match calls since the last other call: 0, 1, or 2 for "several"
    result    \* what the last call returned or raised

vars == <<self, args, data, data1, nprep, clean, last, nmatch, result>>

----------------------------------------------------------------------------
(* Values *)

Nil == [tag |-> "nil"]
None == [tag |-> "none"]
Str(s) == [tag |-> "str", name |-> s]

\* A column or array: its values and its mask (hasmask FALSE: a plain
\* Column or ndarray, which has no attribute `mask`).
Col(v, h, m) == [tag |-> "col", vals |-> v, hasmask |-> h, mask |-> m]

\* A SkyCoord: the sequence of its points.
SkyCoord(p) == [tag |-> "skycoord", pts |-> p]
Point(r, d) == [ra |-> r, dec |-> d]

SeqsUpTo(S, n) == UNION {[1..k -> S] : k \in 0..n}

Full(n, x) == [i \in 1..n |-> x]

\* Table with exact-match column "k".  A cell code 0 is a masked cell, whose
\* underlying value is the key 1.
KeyTable(masked, c) ==
    [masked |-> masked, n |-> Len(c),
     cols |-> [x \in {"k"} |->
                 Col([i \in 1..Len(c) |-> IF c[i] = 0 THEN 1 ELSE c[i]],
                     masked,
                     IF masked THEN [i \in 1..Len(c) |-> c[i] = 0] ELSE <<>>)]]

KeyTables ==
    {KeyTable(FALSE, c) : c \in SeqsUpTo(Keys, MaxLen)}
    \cup {KeyTable(TRUE, c) : c \in SeqsUpTo(0..MaxKey, MaxLen)}

\* Table with columns "ra" and "dec".  A cell code in Pos is that RA with
\* Dec 0; MaxPos+1 is a row with RA masked, MaxPos+2 a row with Dec masked.
SkyTable(masked, c) ==
    [masked |-> masked, n |-> Len(c),
     cols |-> [x \in {"ra", "dec"} |->
                 IF x = "ra"
                 THEN Col([i \in 1..Len(c) |-> IF c[i] > MaxPos THEN 0 ELSE c[i]],
                          masked,
                          IF masked THEN [i \in 1..Len(c) |-> c[i] = MaxPos + 1]
                          ELSE <<>>)
                 ELSE Col([i \in 1..Len(c) |-> 0],
                          masked,
                          IF masked THEN [i \in 1..Len(c) |-> c[i] = MaxPos + 2]
                          ELSE <<>>)]]

SkyTables ==
    {SkyTable(FALSE, c) : c \in SeqsUpTo(Pos, MaxLen)}
    \cup {SkyTable(TRUE, c) : c \in SeqsUpTo(0..(MaxPos + 2), MaxLen)}

colnames(t) == DOMAIN t.cols

\* Raw arrays handed to ExactMatcher: plain ndarrays over the keys.
RawArrays == {Col(v, FALSE, <<>>) : v \in SeqsUpTo(Keys, MaxLen)}

\* Precomputed coordinate objects handed to SkyMatcher.
CoordObjects ==
    {SkyCoord([i \in 1..Len(c) |-> Point(c[i], 0)]) : c \in SeqsUpTo(Pos, MaxLen)}

----------------------------------------------------------------------------
(* numpy *)

\* a[m] for a boolean mask m of a's length: the kept values, in order.
RECURSIVE Take(_, _)
Take(a, keep) ==
    IF a = <<>> THEN <<>>
    ELSE IF Head(keep) THEN <<Head(a)>> \o Take(Tail(a), Tail(keep))
         ELSE Take(Tail(a), Tail(keep))

Not(m) == [i \in 1..Len(m) |-> ~m[i]]

\* np.arange(n, dtype=int)
arange(n) == [i \in 1..n |-> i - 1]

CountTrue(m) == Cardinality({i \in 1..Len(m) : m[i]})

\* b after b[m] = v: the entries of b at the TRUE places of m, in order,
\* replaced by the entries of v; a v of length 1 is broadcast to all of them.
Scatter(b, m, v) ==
    [i \in 1..Len(b) |->
        IF m[i]
        THEN (IF Len(v) = 1 THEN v[1] ELSE v[CountTrue(SubSeq(m, 1, i))])
        ELSE b[i]]

\* Whether b[m] = v is a legal assignment: as many values as TRUE places, or
\* a single value to broadcast.
CanScatter(m, v) == Len(v) = CountTrue(m) \/ Len(v) = 1

\* a[ix] for an array ix of non-negative 0-based indices.
Index(a, ix) == [r \in 1..Len(ix) |-> a[ix[r] + 1]]

CanIndex(a, ix) == \A r \in 1..Len(ix) : ix[r] < Len(a)

----------------------------------------------------------------------------
(* What a call returns or raises *)

NoCall == [st |-> "none", err |-> "", idx |-> <<>>, matched |-> <<>>, d2d |-> <<>>]
Raise(e) == [st |-> "raise", err |-> e, idx |-> <<>>, matched |-> <<>>, d2d |-> <<>>]
ReturnNone == [st |-> "return", err |-> "", idx |-> <<>>, matched |-> <<>>, d2d |-> <<>>]
ReturnMatch(i, m) == [st |-> "return", err |-> "", idx |-> i, matched |-> m, d2d |-> <<>>]
ReturnSep(d) == [st |-> "return", err |-> "", idx |-> <<>>, matched |-> <<>>, d2d |-> d]

\* A method's effect: the instance afterwards and what the call gave.
Effect(s, o) == [self |-> s, out |-> o]

----------------------------------------------------------------------------
(* ExactMatcher *)

\* ExactMatcher(value, value1): the attributes get_values sets do not exist yet.
ExactMatcher(value, value1) ==
    [cls |-> "ExactMatcher", value |-> value, value1 |-> value1,
     thres |-> Nil, coord |-> Nil, coord1 |-> Nil, ra_name |-> Nil, dec_name |-> Nil,
     has_missing |-> FALSE,
     missing |-> <<>>, missing1 |-> <<>>,
     not_missing_id |-> <<>>, not_missing_id1 |-> <<>>]

\* MissingOf with the table's mask never read: no row is missing.
MissingOf_NoMask(valuei, datai) ==
    [err |-> "", missing |-> Full(datai.n, FALSE), ids |-> arange(datai.n)]

\* One pass of the loop of get_values: the missing mask and the compact
\* index map of one table, or the error the pass raises.
MissingOf(valuei, datai) ==
    IF datai.masked /\ ~valuei.hasmask
    THEN [err |-> "AttributeError", missing |-> <<>>, ids |-> <<>>]
    ELSE LET missingi == IF datai.masked THEN valuei.mask ELSE Full(datai.n, FALSE)
         IN IF Len(missingi) # datai.n
            THEN [err |-> "IndexError", missing |-> <<>>, ids |-> <<>>]
            ELSE [err |-> "", missing |-> missingi,
                  ids |-> Take(arange(datai.n), Not(missingi))]

ExactMatcher_get_values(s, d, d1) ==
    LET ke0 == s.value.tag = "str" /\ s.value.name \notin colnames(d)
        s1 == IF s.value.tag = "str" /\ ~ke0
              THEN [s EXCEPT !.value = d.cols[s.value.name]] ELSE s
        ke1 == s1.value1.tag = "str" /\ s1.value1.name \notin colnames(d1)
        s2 == IF s1.value1.tag = "str" /\ ~ke1
              THEN [s1 EXCEPT !.value1 = d1.cols[s1.value1.name]] ELSE s1
        m0 == MissingOf(s2.value, d)
        m1 == MissingOf(s2.value1, d1)
    IN  IF ke0 THEN Effect(s, Raise("KeyError"))
        ELSE IF ke1 THEN Effect(s1, Raise("KeyError"))
        ELSE IF m0.err # "" THEN Effect(s2, Raise(m0.err))
        ELSE IF m1.err # "" THEN Effect(s2, Raise(m1.err))
        ELSE Effect([s2 EXCEPT !.has_missing = TRUE,
                               !.missing = m0.missing, !.missing1 = m1.missing,
                               !.not_missing_id = m0.ids, !.not_missing_id1 = m1.ids],
                    ReturnNone)

\* astrotable.utils.find_idx(array, values): for each value, whether it occurs
\* in array and the 0-based position of its first occurrence there.
find_idx(array, values) ==
    [idx |-> [r \in 1..Len(values) |->
                IF \E j \in 1..Len(array) : array[j] = values[r]
                THEN (CHOOSE j \in 1..Len(array) :
                        /\ array[j] = values[r]
                        /\ \A q \in 1..(j - 1) : array[q] # values[r]) - 1
                ELSE -Len(array) - 1],
     matched |-> [r \in 1..Len(values) |->
                    \E j \in 1..Len(array) : array[j] = values[r]]]

\* line 62: matched[~self.missing] = matched_nm
ExactMatched(s, matched_nm) ==
    Scatter(Full(Len(s.missing), FALSE), Not(s.missing), matched_nm)

\* ExactIdx with idx filled with -l instead of -l-1.
ExactIdx_OffByOne(s, matched, idx_nm, matched_nm) ==
    Scatter(Full(Len(s.missing), -Len(s.missing)), matched,
            Index(s.not_missing_id1, Take(idx_nm, matched_nm)))

\* ExactIdx without the compact index map: idx[matched] = idx_nm[matched_nm].
ExactIdx_NoMap(s, matched, idx_nm, matched_nm) ==
    Scatter(Full(Len(s.missing), -Len(s.missing) - 1), matched,
            Take(idx_nm, matched_nm))

\* line 63: idx[matched] = self.not_missing_id1[idx_nm[matched_nm]]
ExactIdx(s, matched, idx_nm, matched_nm) ==
    Scatter(Full(Len(s.missing), -Len(s.missing) - 1), matched,
            Index(s.not_missing_id1, Take(idx_nm, matched_nm)))

\* ExactMatcher_match on an instance whose __init__ had set empty arrays: it
\* returns an empty result instead of raising before get_values.
ExactMatcher_match_Unguarded(s) ==
    IF ~s.has_missing THEN Effect(s, ReturnMatch(<<>>, <<>>))
    ELSE IF Len(s.value1.vals) # Len(s.missing1) \/ Len(s.value.vals) # Len(s.missing)
    THEN Effect(s, Raise("IndexError"))
    ELSE LET f == find_idx(Take(s.value1.vals, Not(s.missing1)),
                           Take(s.value.vals, Not(s.missing)))
             matched == Scatter(Full(Len(s.missing), FALSE), Not(s.missing), f.matched)
         IN Effect(s, ReturnMatch(
                Scatter(Full(Len(s.missing), -Len(s.missing) - 1), matched,
                        Index(s.not_missing_id1, Take(f.idx, f.matched))),
                matched))

ExactMatcher_match(s) ==
    IF ~s.has_missing THEN Effect(s, Raise("AttributeError"))
    ELSE IF Len(s.value1.vals) # Len(s.missing1) \/ Len(s.value.vals) # Len(s.missing)
    THEN Effect(s, Raise("IndexError"))
    ELSE LET f == find_idx(Take(s.value1.vals, Not(s.missing1)),
                           Take(s.value.vals, Not(s.missing)))
             matched == ExactMatched(s, f.matched)
         IN Effect(s, ReturnMatch(ExactIdx(s, matched, f.idx, f.matched), matched))

----------------------------------------------------------------------------
(* SkyMatcher *)

\* SkyMatcher(thres, coord, coord1); unit and unit1 are left at u.deg and
\* every column is taken to carry a unit SkyCoord accepts.
SkyMatcher(thres, coord, coord1) ==
    [cls |-> "SkyMatcher", value |-> Nil, value1 |-> Nil,
     thres |-> thres, coord |-> coord, coord1 |-> coord1,
     ra_name |-> Nil, dec_name |-> Nil,
     has_missing |-> FALSE,
     missing |-> <<>>, missing1 |-> <<>>,
     not_missing_id |-> <<>>, not_missing_id1 |-> <<>>]

ra_names == <<"ra", "RA">>
dec_names == <<"DEC", "Dec", "dec">>

\* names[np.where(np.isin(names, colnames))][0]
FirstFound(names, cn) ==
    names[CHOOSE i \in 1..Len(names) :
            names[i] \in cn /\ \A j \in 1..(i - 1) : names[j] \notin cn]

AnyFound(names, cn) == \E i \in 1..Len(names) : names[i] \in cn

\* str.split('-') of a string given as its tokens, "-" being the separator.
RECURSIVE split(_)
split(toks) ==
    IF toks = <<>> THEN <<"">>
    ELSE IF Head(toks) = "-" THEN <<"">> \o split(Tail(toks))
    ELSE LET rest == split(Tail(toks))
         IN <<Head(toks) \o Head(rest)>> \o Tail(rest)

Or(m, n) == [i \in 1..Len(m) |-> m[i] \/ n[i]]

\* lines 146-149: the missing mask of a table for its columns ra and dec
SkyMissing(datai, ra, dec) ==
    IF datai.masked THEN Or(ra.mask, dec.mask) ELSE Full(datai.n, FALSE)

\* line 153: SkyCoord(ra=ra[~missingi], dec=dec[~missingi], unit=uniti)
MakeSkyCoord(ra, dec, missingi) ==
    LET r == Take(ra.vals, Not(missingi))
        d == Take(dec.vals, Not(missingi))
    IN SkyCoord([i \in 1..Len(r) |-> Point(r[i], d[i])])

SkyPass(e, rn, dn, c, m, ids) ==
    [err |-> e, ra_name |-> rn, dec_name |-> dn, coord |-> c, missing |-> m, ids |-> ids]

\* The columns named rn and dn resolved against a table (lines 130-153).
SkyFromColumns(datai, rn, dn) ==
    LET ra == datai.cols[rn]
        dec == datai.cols[dn]
        missingi == SkyMissing(datai, ra, dec)
    IN SkyPass("", Str(rn), Str(dn), MakeSkyCoord(ra, dec, missingi), missingi,
               Take(arange(datai.n), Not(missingi)))

\* One pass of the loop of get_values (lines 124-171) for one specification
\* and one table, from the names self.ra_name, self.dec_name hold before it.
SkyResolve(coordi, datai, rn0, dn0) ==
    IF coordi.tag = "none"
    THEN IF ~AnyFound(ra_names, colnames(datai))
         THEN SkyPass("KeyError", rn0, dn0, Nil, <<>>, <<>>)
         ELSE IF ~AnyFound(dec_names, colnames(datai))
         THEN SkyPass("KeyError", Str(FirstFound(ra_names, colnames(datai))), dn0,
                      Nil, <<>>, <<>>)
         ELSE SkyFromColumns(datai, FirstFound(ra_names, colnames(datai)),
                             FirstFound(dec_names, colnames(datai)))
    ELSE IF coordi.tag = "str"
    THEN LET parts == split(coordi.name)
         IN IF Len(parts) # 2 THEN SkyPass("ValueError", rn0, dn0, Nil, <<>>, <<>>)
            ELSE IF parts[1] \notin colnames(datai) \/ parts[2] \notin colnames(datai)
            THEN SkyPass("KeyError", Str(parts[1]), Str(parts[2]), Nil, <<>>, <<>>)
            ELSE SkyFromColumns(datai, parts[1], parts[2])
    ELSE IF coordi.tag = "skycoord"
    THEN SkyPass("", None, None, coordi, Full(datai.n, FALSE), arange(datai.n))
    ELSE SkyPass("TypeError", rn0, dn0, Nil, <<>>, <<>>)

SkyMatcher_get_values(s, d, d1) ==
    LET p0 == SkyResolve(s.coord, d, s.ra_name, s.dec_name)
        p1 == SkyResolve(s.coord1, d1, p0.ra_name, p0.dec_name)
    IN  IF p0.err # ""
        THEN Effect([s EXCEPT !.ra_name = p0.ra_name, !.dec_name = p0.dec_name],
                    Raise(p0.err))
        ELSE IF p1.err # ""
        THEN Effect([s EXCEPT !.ra_name = p1.ra_name, !.dec_name = p1.dec_name],
                    Raise(p1.err))
        ELSE Effect([s EXCEPT !.ra_name = p1.ra_name, !.dec_name = p1.dec_name,
                              !.coord = p0.coord, !.coord1 = p1.coord,
                              !.has_missing = TRUE,
                              !.missing = p0.missing, !.missing1 = p1.missing,
                              !.not_missing_id = p0.ids, !.not_missing_id1 = p1.ids],
                    ReturnNone)

Abs(x) == IF x < 0 THEN -x ELSE x

\* Angular separation of two points, in arcseconds.
Sep(p, q) == Abs(p.ra - q.ra) + Abs(p.dec - q.dec)

\* 1-based position in catalog of the point nearest to p (the first of them
\* when several are equally near).
Nearest(p, catalog) ==
    CHOOSE j \in 1..Len(catalog) :
        /\ \A q \in 1..Len(catalog) : Sep(p, catalog[j]) <= Sep(p, catalog[q])
        /\ \A q \in 1..(j - 1) : Sep(p, catalog[q]) > Sep(p, catalog[j])

\* SkyCoord.match_to_catalog_sky: for each point the 0-based index of its
\* nearest catalog point and the separation to it; an empty catalog is refused.
match_to_catalog_sky(c, catalog) ==
    IF Len(catalog.pts) = 0
    THEN [err |-> "ValueError", idx |-> <<>>, d2d |-> <<>>]
    ELSE [err |-> "",
          idx |-> [r \in 1..Len(c.pts) |-> Nearest(c.pts[r], catalog.pts) - 1],
          d2d |-> [r \in 1..Len(c.pts) |->
                     Sep(c.pts[r], catalog.pts[Nearest(c.pts[r], catalog.pts)])]]

\* BelowThres with <= for <.
BelowThres_Inclusive(d2d, thres) == [r \in 1..Len(d2d) |-> d2d[r] <= thres]

\* line 187: d2d.arcsec < self.thres
BelowThres(d2d, thres) == [r \in 1..Len(d2d) |-> d2d[r] < thres]

\* SkyIdx without the compact index map: idx[~self.missing] = idx_nm.
SkyIdx_NoMap(s, idx_nm) ==
    Scatter(Full(Len(s.missing), -Len(s.missing) - 1), Not(s.missing), idx_nm)

\* line 186: idx[~self.missing] = self.not_missing_id1[idx_nm]
SkyIdx(s, idx_nm) ==
    Scatter(Full(Len(s.missing), -Len(s.missing) - 1), Not(s.missing),
            Index(s.not_missing_id1, idx_nm))

\* line 187: matched[~self.missing] = d2d.arcsec < self.thres
SkyMatched(s, d2d) ==
    Scatter(Full(Len(s.missing), FALSE), Not(s.missing), BelowThres(d2d, s.thres))

\* SkyMatcher_match keeping the threshold test on the instance: it stores
\* matched as self.missing.
SkyMatcher_match_InPlace(s) ==
    IF ~s.has_missing THEN Effect(s, Raise("AttributeError"))
    ELSE LET m == match_to_catalog_sky(s.coord, s.coord1)
         IN IF m.err # "" THEN Effect(s, Raise(m.err))
            ELSE IF ~CanIndex(s.not_missing_id1, m.idx)
            THEN Effect(s, Raise("IndexError"))
            ELSE IF ~CanScatter(Not(s.missing), m.idx)
            THEN Effect(s, Raise("ValueError"))
            ELSE LET matched == Scatter(Full(Len(s.missing), FALSE), Not(s.missing),
                                        [r \in 1..Len(m.d2d) |-> m.d2d[r] < s.thres])
                 IN Effect([s EXCEPT !.missing = matched],
                           ReturnMatch(Scatter(Full(Len(s.missing), -Len(s.missing) - 1),
                                               Not(s.missing),
                                               Index(s.not_missing_id1, m.idx)),
                                       matched))

SkyMatcher_match(s) ==
    IF ~s.has_missing THEN Effect(s, Raise("AttributeError"))
    ELSE LET m == match_to_catalog_sky(s.coord, s.coord1)
         IN IF m.err # "" THEN Effect(s, Raise(m.err))
            ELSE IF ~CanIndex(s.not_missing_id1, m.idx)
            THEN Effect(s, Raise("IndexError"))
            ELSE IF ~CanScatter(Not(s.missing), m.idx)
            THEN Effect(s, Raise("ValueError"))
            ELSE Effect(s, ReturnMatch(SkyIdx(s, m.idx), SkyMatched(s, m.d2d)))

\* explore(data, data1): get_values, then the separations; the histogram it
\* draws is not modelled.
SkyMatcher_explore(s, d, d1) ==
    LET g == SkyMatcher_get_values(s, d, d1)
        m == match_to_catalog_sky(g.self.coord, g.self.coord1)
    IN  IF g.out.st = "raise" THEN g
        ELSE IF m.err # "" THEN Effect(g.self, Raise(m.err))
        ELSE Effect(g.self, ReturnSep(m.d2d))

----------------------------------------------------------------------------
(* The caller *)

\* Constructor arguments explored: column names on both sides (one of them
\* naming no column), or a raw array (a precomputed coordinate object) on one
\* side and a column name (auto-detection) on the other.
ExactArgs ==
    {<<Str(a), Str(b)>> : a \in {"k", "z"}, b \in {"k", "z"}}
    \cup {<<v, Str("k")>> : v \in RawArrays}
    \cup {<<Str("k"), v>> : v \in RawArrays}

RaDec == Str(<<"ra", "-", "dec">>)
XY == Str(<<"x", "-", "y">>)

SkyArgs ==
    {<<a, b>> : a \in {None, RaDec, XY}, b \in {None, RaDec}}
    \cup {<<c, None>> : c \in CoordObjects}
    \cup {<<RaDec, c>> : c \in CoordObjects}

Construct(cls, a) ==
    IF cls = "ExactMatcher" THEN ExactMatcher(a[1], a[2])
    ELSE SkyMatcher(DefaultThres, a[1], a[2])

\* Tables a SkyMatcher is given: those with coordinate columns, and one
\* table that has none.
CoordTables == SkyTables \cup {KeyTable(FALSE, <<1>>)}

ArrLen(x) ==
    IF x.tag = "col" THEN Len(x.vals)
    ELSE IF x.tag = "skycoord" THEN Len(x.pts) ELSE 0

\* An instance all of whose arrays have at most one row.
SmallSelf(s) ==
    /\ ArrLen(s.value) <= 1 /\ ArrLen(s.value1) <= 1
    /\ ArrLen(s.coord) <= 1 /\ ArrLen(s.coord1) <= 1
    /\ Len(s.missing) <= 1 /\ Len(s.missing1) <= 1

\* An instance as constructed: get_values has changed nothing yet.
Untouched == self = Construct(self.cls, args)

\* The tables explored with a specification.  For a column name (or
\* auto-detection) every table; for a raw array or a coordinate object, for
\* which get_values reads only the table's masked flag (ExactMatcher) and its
\* length, one table of each length (and flag).
TablesGiven(spec) ==
    IF self.cls = "ExactMatcher"
    THEN IF spec.tag = "col"
         THEN {KeyTable(m, Full(n, 1)) : m \in BOOLEAN, n \in 0..MaxLen}
         ELSE KeyTables
    ELSE IF spec.tag = "skycoord"
         THEN {SkyTable(FALSE, Full(n, 0)) : n \in 0..MaxLen}
         ELSE CoordTables

\* get_values is explored with every such table on an instance as
\* constructed, and with those of at most one row on an instance of at most
\* one row that get_values has changed.
PrepareTables(spec) ==
    IF Untouched THEN TablesGiven(spec)
    ELSE IF SmallSelf(self) THEN {t \in TablesGiven(spec) : t.n <= 1}
    ELSE {}

\* explore is explored on an instance as constructed, with tables of at most
\* one row.
ExploreTables(spec) ==
    IF Untouched THEN {t \in TablesGiven(spec) : t.n <= 1} ELSE {}

Bump(n) == IF n = 0 THEN 1 ELSE 2

\* The instance and the bookkeeping after a call of get_values or explore on
\* (d, d1) with effect e; ok: its get_values returned.
Prepared(e, ok, d, d1, method) ==
    /\ self' = e.self
    /\ result' = e.out
    /\ last' = method
    /\ nmatch' = 0
    /\ nprep' = IF ok THEN Bump(nprep) ELSE nprep
    /\ clean' = (clean /\ ok)
    /\ data' = IF ok THEN d ELSE data
    /\ data1' = IF ok THEN d1 ELSE data1
    /\ UNCHANGED args

\* The instance and the bookkeeping after a call of match with effect e.
Called(e) ==
    /\ self' = e.self
    /\ result' = e.out
    /\ last' = "match"
    /\ nmatch' = Bump(nmatch)
    /\ UNCHANGED <<args, data, data1, nprep, clean>>

Init ==
    /\ \/ \E a \in ExactArgs : args = a /\ self = Construct("ExactMatcher", a)
       \/ \E a \in SkyArgs : args = a /\ self = Construct("SkyMatcher", a)
    /\ data = KeyTable(FALSE, <<>>)
    /\ data1 = KeyTable(FALSE, <<>>)
    /\ nprep = 0
    /\ clean = TRUE
    /\ last = "init"
    /\ nmatch = 0
    /\ result = NoCall

ExactGetValues ==
    /\ self.cls = "ExactMatcher"
    /\ \E d \in PrepareTables(args[1]), d1 \in PrepareTables(args[2]) :
          LET e == ExactMatcher_get_values(self, d, d1)
          IN Prepared(e, e.out.st = "return", d, d1, "get_values")

ExactMatch ==
    /\ self.cls = "ExactMatcher"
    /\ Called(ExactMatcher_match(self))

SkyGetValues ==
    /\ self.cls = "SkyMatcher"
    /\ \E d \in PrepareTables(args[1]), d1 \in PrepareTables(args[2]) :
          LET e == SkyMatcher_get_values(self, d, d1)
          IN Prepared(e, e.out.st = "return", d, d1, "get_values")

SkyMatch ==
    /\ self.cls = "SkyMatcher"
    /\ Called(SkyMatcher_match(self))

SkyExplore ==
    /\ self.cls = "SkyMatcher"
    /\ \E d \in ExploreTables(args[1]), d1 \in ExploreTables(args[2]) :
          Prepared(SkyMatcher_explore(self, d, d1),
                   SkyMatcher_get_values(self, d, d1).out.st = "return",
                   d, d1, "explore")

Next ==
    \/ ExactGetValues
    \/ ExactMatch
    \/ SkyGetValues
    \/ SkyMatch
    \/ SkyExplore

Spec == Init /\ [][Next]_vars

----------------------------------------------------------------------------
(* Properties *)

\* The last call was a match that returned (idx, matched).
Matched == last = "match" /\ result.st = "return"

\* ... on an instance whose only get_values call returned.
FirstMatched == Matched /\ nprep = 1 /\ clean

Range(a) == {a[i] : i \in DOMAIN a}

Sentinel == -(data.n + 1)

\* The key of row i of table t under an ExactMatcher specification, and
\* whether it is missing.
KeyOf(spec, t, i) ==
    IF spec.tag = "str" THEN t.cols[spec.name].vals[i] ELSE spec.vals[i]

KeyMissing(spec, t, i) ==
    spec.tag = "str" /\ t.masked /\ t.cols[spec.name].mask[i]

\* The coordinate of row i of table t under a SkyMatcher specification, and
\* whether RA or Dec is missing.
PointOf(spec, t, i) ==
    IF spec.tag = "skycoord" THEN spec.pts[i]
    ELSE Point(t.cols["ra"].vals[i], t.cols["dec"].vals[i])

PointMissing(spec, t, i) ==
    spec.tag # "skycoord" /\ t.masked
    /\ (t.cols["ra"].mask[i] \/ t.cols["dec"].mask[i])

\* A coordinate object gives one coordinate per row of its table.
PerRow(spec, t) == spec.tag = "skycoord" => Len(spec.pts) = t.n

\* C1 as stated: in the result of match() on a base table of N rows, every
\* row that is not matched has idx = -(N+1), for both matchers.
C1_UnmatchedIsSentinel ==
    Matched =>
        \A i \in DOMAIN result.matched :
            ~result.matched[i] => result.idx[i] = Sentinel

\* C1, amended: an unmatched row has idx = -(N+1) in the result of
\* ExactMatcher.match(), and in the result of SkyMatcher.match() when the
\* instance's missing mask marks the row; an unmatched row SkyMatcher does not
\* mark missing carries the original index of its nearest neighbour in data1.
C1_SentinelWhereWritten ==
    Matched =>
        /\ Len(result.idx) = data.n
        /\ Len(result.matched) = data.n
        /\ \A i \in DOMAIN result.matched :
              ~result.matched[i] =>
                  IF self.cls = "ExactMatcher" \/ self.missing[i]
                  THEN result.idx[i] = Sentinel
                  ELSE result.idx[i] \in 0..(data1.n - 1)

C1_Witness ==
    /\ Matched /\ self.cls = "SkyMatcher"
    /\ \E i, j \in DOMAIN result.matched :
          /\ self.missing[i] /\ result.idx[i] = Sentinel
          /\ ~self.missing[j] /\ ~result.matched[j] /\ result.idx[j] >= 0

\* C2: in the result of match(), every matched row has 0 <= idx < len(data1),
\* and idx is an entry of data1's compact index map: the original index of a
\* row of data1 the instance holds as not missing.
C2_MatchedIsRowOfOther ==
    Matched =>
        \A i \in DOMAIN result.matched :
            result.matched[i] =>
                /\ 0 <= result.idx[i] /\ result.idx[i] < data1.n
                /\ result.idx[i] \in Range(self.not_missing_id1)

\* A matched row whose index in data1 differs from its position among data1's
\* rows that are not missing.
C2_Witness ==
    /\ Matched
    /\ \E i \in DOMAIN result.matched :
          /\ result.matched[i]
          /\ self.missing1[1]
          /\ result.idx[i] = 1

\* C3: after ExactMatcher's first prepare, matched[i] holds exactly when row
\* i's key is not missing and equals the key of some row of data1 whose key is
\* not missing.
C3_MatchedIffEqualKey ==
    (FirstMatched /\ self.cls = "ExactMatcher") =>
        /\ Len(result.matched) = data.n
        /\ \A i \in 1..data.n :
              result.matched[i] <=>
                  /\ ~KeyMissing(args[1], data, i)
                  /\ \E j \in 1..data1.n :
                        /\ ~KeyMissing(args[2], data1, j)
                        /\ KeyOf(args[2], data1, j) = KeyOf(args[1], data, i)

\* A masked base row whose underlying key occurs in data1, beside a row that
\* is matched.
C3_Witness ==
    /\ FirstMatched /\ self.cls = "ExactMatcher"
    /\ \E i, k \in 1..data.n :
          /\ KeyMissing(args[1], data, i) /\ ~result.matched[i]
          /\ \E j \in 1..data1.n :
                /\ ~KeyMissing(args[2], data1, j)
                /\ KeyOf(args[2], data1, j) = KeyOf(args[1], data, i)
          /\ result.matched[k]

IsNearest(i, j) ==
    /\ ~PointMissing(args[2], data1, j)
    /\ \A q \in 1..data1.n :
          ~PointMissing(args[2], data1, q) =>
              Sep(PointOf(args[1], data, i), PointOf(args[2], data1, j))
                  <= Sep(PointOf(args[1], data, i), PointOf(args[2], data1, q))

\* C5: after SkyMatcher's first prepare (each side giving one coordinate per
\* row), matched[i] holds exactly when neither RA nor Dec of row i is missing
\* and its least separation to the rows of data1 that are not missing is
\* strictly below thres.
C5_MatchedIffBelowThres ==
    (/\ FirstMatched /\ self.cls = "SkyMatcher"
     /\ PerRow(args[1], data) /\ PerRow(args[2], data1)) =>
        /\ Len(result.matched) = data.n
        /\ \A i \in 1..data.n :
              result.matched[i] <=>
                  /\ ~PointMissing(args[1], data, i)
                  /\ \E j \in 1..data1.n :
                        /\ IsNearest(i, j)
                        /\ Sep(PointOf(args[1], data, i), PointOf(args[2], data1, j))
                               < self.thres

\* A row with a coordinate missing beside a row whose least separation equals
\* thres, and so is not matched.
C5_Witness ==
    /\ FirstMatched /\ self.cls = "SkyMatcher"
    /\ PerRow(args[1], data) /\ PerRow(args[2], data1)
    /\ \E i, k \in 1..data.n :
          /\ PointMissing(args[1], data, i) /\ ~result.matched[i]
          /\ ~PointMissing(args[1], data, k) /\ ~result.matched[k]
          /\ \E j \in 1..data1.n :
                /\ IsNearest(k, j)
                /\ Sep(PointOf(args[1], data, k), PointOf(args[2], data1, j))
                       = self.thres

\* The arguments name columns (or ask for auto-detection) on both sides.
ByName == args[1].tag \in {"str", "none"} /\ args[2].tag \in {"str", "none"}

\* What match() gives on an instance constructed with a and prepared once,
\* with (d, d1).
FreshMatch(cls, a, d, d1) ==
    IF cls = "ExactMatcher"
    THEN ExactMatcher_match(ExactMatcher_get_values(Construct(cls, a), d, d1).self).out
    ELSE SkyMatcher_match(SkyMatcher_get_values(Construct(cls, a), d, d1).self).out

\* C6: on an instance constructed with column names, after get_values calls
\* that all returned, the last with (B, B1), match() gives what it gives on a
\* fresh instance prepared once with (B, B1).
C6_RePrepareResets ==
    (last = "match" /\ nprep >= 1 /\ clean /\ ByName) =>
        result = FreshMatch(self.cls, args, data, data1)

\* C7: match() on an instance no get_values call has returned on raises
\* AttributeError; match() returns only after a get_values call has returned.
C7_MatchNeedsPrepare ==
    last = "match" =>
        /\ nprep = 0 => result = Raise("AttributeError")
        /\ result.st = "return" => nprep >= 1

\* match() called after a get_values call that raised, and before any that
\* returned.
C7_Witness ==
    last = "match" /\ nprep = 0 /\ ~clean /\ result = Raise("AttributeError")

\* C8: once a get_values call has returned, match() returns.
C8_MatchReturnsOncePrepared ==
    (last = "match" /\ nprep >= 1) => result.st = "return"

\* C9: when ExactMatcher is given a raw array whose length differs from its
\* table's, get_values does not return.
C9_LengthIsValidated ==
    (self.cls = "ExactMatcher" /\ last = "get_values" /\ result.st = "return") =>
        /\ args[1].tag = "col" => Len(args[1].vals) = data.n
        /\ args[2].tag = "col" => Len(args[2].vals) = data1.n

\* C10: a match() call leaves every attribute of the instance as it was, and a
\* match() call that follows a match() call gives the same result.
C10_MatchIsPure ==
    [][last' = "match" =>
          /\ self' = self
          /\ last = "match" => result' = result]_vars

\* A second match() in a row that returned a result with a matched and an
\* unmatched row.
C10_Witness ==
    /\ Matched /\ nmatch = 2
    /\ \E i, j \in DOMAIN result.matched : result.matched[i] /\ ~result.matched[j]

=============================================================================
